---- MODULE Spec2Model ----
(***************************************************************************)
(* Model of grizzly/reduce/strategies/lithium.py: the _LithiumStrategy     *)
(* generator (__init__, rescan_files_to_reduce, update, __len__, __iter__) *)
(* and its variants Check, CollapseEmptyBraces and MinimizeLines.          *)
(*                                                                         *)
(* A file's reducible content is the set of line ids it still holds; the   *)
(* test-case root maps each path in it to that content.  Paths are         *)
(* numbers, ordered as the paths sort; path 0 is the metadata file.        *)
(***************************************************************************)
EXTENDS Integers, Sequences, FiniteSets, TLC

\* ------------------------------------------------------------ the bounds
NumFiles == 2
MaxLen == 2
MaxCandidates == 2
MaxEstLen == 64

\* ------------------------------------------------- names and value sets
\* path 0 stands for the metadata files, test_info.json and prefs.js
MetaPath == 0
FilePaths == 1..NumFiles
NoFile == 0 - 1
\* served=None, and a served list
NoServed == [given |-> FALSE, files |-> {}]
ServedList(files) == [given |-> TRUE, files |-> files]
\* self._current_reducer = None
NoReducer == [active |-> FALSE, best |-> {}, attempt |-> {}, tried |-> {},
              count |-> 0]
NoEstimate == [set |-> FALSE, at |-> 0, next |-> 0, chunk |-> 0, special |-> 0,
               general |-> 0]
Variants == {"check", "lines", "collapsebraces"}
\* the lengths of the files at construction: empty, one part, the longest
InitialLengths == {0, 1, MaxLen}

VARIABLES
    variant,          \* the strategy class in use
    all_files,        \* self._all_files
    has_dd,           \* the paths whose file holds DDBEGIN/DDEND
    root,             \* self._testcase_root: path -> content
    files_to_reduce,  \* self._files_to_reduce (its order is never read twice)
    remain,           \* self._possible_iters_remain
    check_remain,     \* Check._remain
    tried,            \* self._tried: the set of whole-set snapshots
    reducer,          \* self._current_reducer
    feedback,         \* self._current_feedback (None reads as False)
    served,           \* self._current_served
    dirty,            \* self._testcase_root_dirty
    reduce_queue,     \* __iter__'s reduce_queue
    file,             \* __iter__'s file
    testcase_length,  \* __iter__'s testcase_length
    reduction,        \* __iter__'s reduction: the candidate last yielded
    this_tc_tried,    \* __iter__'s this_tc_tried
    pc,               \* the generator's position
    orig,             \* history: each file's content at construction
    accepted,         \* history: each file's last accepted candidate
    unsurfaced,       \* history: a purge deleted a file since the last yield
    nyields,          \* history: the number of yields so far (0, 1, 2 or more)
    nloaded,          \* history: the number of files loaded (0, 1, 2 or more)
    ncandidates,      \* history: the number of candidates proposed so far
    len_at_yield,     \* history: len(strategy) at the last yield
    est_len,          \* the estimator's input length
    est_cls,          \* the estimator's class
    est_out           \* the estimator's result

engine_vars == <<variant, all_files, has_dd, root, files_to_reduce, remain,
                 check_remain, tried, reducer, feedback, served, dirty,
                 reduce_queue, file, testcase_length, reduction,
                 this_tc_tried, pc>>
engine_vars_but_pc == <<variant, all_files, has_dd, root, files_to_reduce,
                        remain, check_remain, tried, reducer, feedback,
                        served, dirty, reduce_queue, file, testcase_length,
                        reduction, this_tc_tried>>
history_vars == <<orig, accepted, unsurfaced, nyields, nloaded, ncandidates,
                  len_at_yield>>
est_vars == <<est_len, est_cls, est_out>>
vars == <<engine_vars, history_vars, est_vars>>

\* ------------------------------------------------------- the estimator
\* lithium.util.largest_power_of_two_smaller_than
RECURSIVE Pow2Below(_, _)
Pow2Below(result, length) ==
    IF result * 2 < length THEN Pow2Below(result * 2, length) ELSE result

largest_power_of_two_smaller_than(length) == Pow2Below(1, length)

\* lithium.util.divide_rounding_up
divide_rounding_up(n, d) == (n \div d) + (IF n % d /= 0 THEN 1 ELSE 0)

RECURSIVE ChunkLoop(_, _, _)
ChunkLoop(result, length, chunk_size) ==
    IF chunk_size > 1
    THEN ChunkLoop(result + divide_rounding_up(length, chunk_size), length,
                   chunk_size \div 2)
    ELSE result

ChunkItersWrongFactor(length, chunk_size) ==
    IF length = chunk_size
    THEN chunk_size * 4 - 1
    ELSE ChunkLoop(2 * length, length, chunk_size)

ChunkItersDoubled(length, chunk_size) ==
    IF length = chunk_size
    THEN chunk_size * 2 - 1
    ELSE ChunkLoop(2 * length, length, chunk_size)

_chunk_iters(length, chunk_size) ==
    IF length = chunk_size
    THEN chunk_size * 3 - 1
    ELSE ChunkLoop(2 * length, length, chunk_size)

BasePossibleIters(length) ==
    _chunk_iters(length, largest_power_of_two_smaller_than(length) * 2) - 1

_possible_iters(cls, length) ==
    IF cls = "collapsebraces"
    THEN BasePossibleIters(length) * 2
    ELSE BasePossibleIters(length)

\* ------------------------------------------------------------- helpers
Restrict(f, S) == [x \in S |-> f[x]]

Max(a, b) == IF a >= b THEN a ELSE b

RECURSIVE SumOver(_, _)
SumOver(f, S) ==
    IF S = {} THEN 0
    ELSE LET x == CHOOSE y \in S : TRUE IN f[x] + SumOver(f, S \ {x})

\* sum(self._possible_iters_remain.values())
SumValues(f) == SumOver(f, DOMAIN f)

RECURSIVE SortedDescending(_)
SortedDescending(S) ==
    IF S = {} THEN <<>>
    ELSE LET m == CHOOSE x \in S : \A y \in S : x >= y
         IN <<m>> \o SortedDescending(S \ {m})

\* sorted(): the paths of S in ascending order
RECURSIVE Sorted(_)
Sorted(S) ==
    IF S = {} THEN <<>>
    ELSE LET m == CHOOSE x \in S : \A y \in S : x <= y
         IN <<m>> \o Sorted(S \ {m})

\* a history counter that stops counting at 2
CountUp(n) == IF n < 2 THEN n + 1 ELSE n

SeqToSet(q) == {q[i] : i \in 1..Len(q)}

\* len() of a loaded lithium testcase: its number of reducible parts
TestcaseLen(content) == Cardinality(content)

\* a content fingerprint (SHA-512 of the file's bytes): one digest per content
Fingerprint(content) == [sha512 |-> content]

\* ------------------------------------------------- the file-set scanner
ReducibleIgnoringMarkers(p) == p /= MetaPath

\* lines 103-104: path.name is no metadata name, and all files are reduced
\* or the file contains DDBEGIN/DDEND
Reducible(p) == p /= MetaPath /\ (all_files \/ p \in has_dd)

\* the files rescan_files_to_reduce collects from the root
ScanFiles(rt) == {p \in DOMAIN rt : Reducible(p)}

\* rescan_files_to_reduce's removal of the estimates of files that are gone
RescanEstimatesKept(rm, files) == rm

RescanEstimates(rm, files) == Restrict(rm, DOMAIN rm \cap files)

\* ---------------------------------- the base Strategy's collaborators
\* Strategy._calculate_testcase_hash: path -> fingerprint, as a whole set
CalculateTestcaseHash(rt) == [p \in ScanFiles(rt) |-> Fingerprint(rt[p])]

\* Strategy.purge_unserved: delete every reducible file that was not served
PurgeUnserved(rt, sv) ==
    Restrict(rt, DOMAIN rt \ {p \in ScanFiles(rt) : p \notin sv})

\* ------------------------------------------------ the length estimate
LenOf(v, rm, d, cr) ==
    IF v = "check" THEN cr ELSE SumValues(rm) + (IF d THEN 1 ELSE 0)

StrategyLen == LenOf(variant, remain, dirty, check_remain)

\* --------------------------------------------------------- construction
\* Check.__init__: self._files_to_reduce[:1]; the first file is whichever
\* the directory walk returned first
TrimmedFileLists(v, files) ==
    IF v = "check" /\ files /= {} THEN {{p} : p \in files} ELSE {files}

InitialEstimates(v, rt) ==
    [p \in ScanFiles(rt) |-> _possible_iters(v, TestcaseLen(rt[p]))]

EstIdle ==
    /\ est_len = 0
    /\ est_cls = "lines"
    /\ est_out = NoEstimate

Init ==
    /\ variant \in Variants
    /\ all_files \in BOOLEAN
    /\ \E n \in 0..NumFiles :
         /\ has_dd \in IF all_files THEN {{}} ELSE (SUBSET (1..n)) \ {1..n}
         /\ \E lens \in [1..n -> InitialLengths] :
              /\ \A p \in 1..n : Reducible(p) \/ lens[p] = 1
              /\ root = [p \in {MetaPath} \cup (1..n) |->
                           IF p = MetaPath THEN {} ELSE 1..lens[p]]
    /\ files_to_reduce \in TrimmedFileLists(variant, ScanFiles(root))
    /\ remain = InitialEstimates(variant, root)
    /\ check_remain = (IF variant = "check" THEN 1 ELSE 0)
    /\ tried = {}
    /\ reducer = NoReducer
    /\ feedback = FALSE
    /\ served = NoServed
    /\ dirty = FALSE
    /\ reduce_queue = <<>>
    /\ file = NoFile
    /\ testcase_length = 0
    /\ reduction = {}
    /\ this_tc_tried = {}
    /\ pc = "new"
    /\ orig = root
    /\ accepted = root
    /\ unsurfaced = FALSE
    /\ nyields = 0
    /\ nloaded = 0
    /\ ncandidates = 0
    /\ len_at_yield = 0
    /\ EstIdle

\* ------------------------------------------------------------ __iter__
\* lines 162-168 (and Check.__iter__'s self._remain = 0)
IterStart ==
    /\ pc = "new"
    /\ reduce_queue' = Sorted(files_to_reduce)
    /\ dirty' = FALSE
    /\ check_remain' = 0
    /\ pc' = "loop"
    /\ UNCHANGED <<variant, all_files, has_dd, root, files_to_reduce, remain,
                   tried, reducer, feedback, served, file, testcase_length,
                   reduction, this_tc_tried>>
    /\ UNCHANGED <<history_vars, est_vars>>

\* lines 185-192: the fingerprints of f in the snapshots that agree with the
\* root on every other file
SeedTriedIgnoringOthers(rt, f, cache) == {t[f] : t \in cache}

SeedTried(rt, f, cache) ==
    LET current_tc_hash_map ==
            Restrict(CalculateTestcaseHash(rt),
                     DOMAIN CalculateTestcaseHash(rt) \ {f})
    IN {t[f] : t \in {u \in cache :
                Restrict(u, DOMAIN u \ {f}) = current_tc_hash_map}}

\* strategy_cls().reduce(lithium_testcase), then update_tried
NewReducer(content, skip) ==
    [active |-> TRUE, best |-> content, attempt |-> {}, tried |-> skip,
     count |-> 0]

\* lines 169-193: pop the next file, load it and seed its reducer
StartFile ==
    /\ pc = "loop"
    /\ reduce_queue /= <<>>
    /\ file' = Head(reduce_queue)
    /\ reduce_queue' = Tail(reduce_queue)
    /\ testcase_length' = TestcaseLen(root[file'])
    /\ this_tc_tried' = SeedTried(root, file', tried)
    /\ reducer' = NewReducer(root[file'], this_tc_tried')
    /\ nloaded' = CountUp(nloaded)
    /\ pc' = "iter"
    /\ UNCHANGED <<variant, all_files, has_dd, root, files_to_reduce, remain,
                   check_remain, tried, feedback, served, dirty, reduction>>
    /\ UNCHANGED <<orig, accepted, unsurfaced, nyields, ncandidates, len_at_yield>>
    /\ UNCHANGED est_vars

\* the candidates the reducer may propose next: CheckOnly proposes the
\* testcase as it is, once; the minimizers propose the best testcase with
\* some parts removed, never one whose fingerprint is in their tried set
Candidates(v, rd) ==
    IF v = "check"
    THEN IF rd.count = 0 THEN {rd.best} ELSE {}
    ELSE {c \in (SUBSET rd.best) \ {rd.best} : Fingerprint(c) \notin rd.tried}

\* lines 195-199: the reducer's next candidate is dumped and yielded
NextCandidate ==
    /\ pc = "iter"
    /\ variant /= "check" => ncandidates < MaxCandidates
    /\ ncandidates' = IF variant = "check" THEN ncandidates
                      ELSE ncandidates + 1
    /\ \E c \in Candidates(variant, reducer) :
         /\ reduction' = c
         /\ root' = [root EXCEPT ![file] = c]
         /\ reducer' = [reducer EXCEPT !.attempt = {c},
                                        !.tried = @ \cup {Fingerprint(c)},
                                        !.count = @ + 1]
    /\ pc' = "yield"
    /\ nyields' = CountUp(nyields)
    /\ unsurfaced' = FALSE
    /\ len_at_yield' = StrategyLen
    /\ UNCHANGED <<variant, all_files, has_dd, files_to_reduce, remain,
                   check_remain, tried, feedback, served, dirty, reduce_queue,
                   file, testcase_length, this_tc_tried>>
    /\ UNCHANGED <<orig, accepted, nloaded>>
    /\ UNCHANGED est_vars

\* line 232: self._current_reducer.testcase.dump()
CommitSkipped(rt, f, rd) == rt

CommitBest(rt, f, rd) == [rt EXCEPT ![f] = rd.best]

\* line 234: self._possible_iters_remain.pop(file, None)
PopEstimateSkipped(rm, f) == rm

PopEstimate(rm, f) == Restrict(rm, DOMAIN rm \ {f})

\* lines 230-234: the reducer is exhausted; a minimizer may stop after any
\* candidate, CheckOnly stops after its one
ReducerExhausted ==
    /\ pc = "iter"
    /\ variant = "check" => reducer.count = 1
    /\ root' = CommitBest(root, file, reducer)
    /\ reducer' = NoReducer
    /\ remain' = PopEstimate(remain, file)
    /\ pc' = "loop"
    /\ UNCHANGED <<variant, all_files, has_dd, files_to_reduce, check_remain,
                   tried, feedback, served, dirty, reduce_queue, file,
                   testcase_length, reduction, this_tc_tried>>
    /\ UNCHANGED <<history_vars, est_vars>>

\* ------------------------------------------------------------- update
\* ReductionIterator.feedback: an accepted attempt becomes the best testcase
Feedback(rd, success) ==
    [rd EXCEPT !.best = IF success THEN CHOOSE c \in rd.attempt : TRUE ELSE @,
               !.attempt = {}]

\* the served lists over the reducible files: all of them served, or all
\* but one
ServedSets(files) == {files} \cup {files \ {p} : p \in files}

\* the values a caller may pass as served: none, or the list of the files
\* that were served.  With a rejection the list is never read, so the full
\* list stands for every list; after the final yield nothing reads served.
ServedChoices(success) ==
    IF pc = "final" THEN {NoServed}
    ELSE {NoServed} \cup
         {ServedList(S) : S \in IF success THEN ServedSets(ScanFiles(root))
                                          ELSE {ScanFiles(root)}}

\* lines 136-139, called once after each yield
Update(success, sv) ==
    /\ pc \in {"yield", "final"}
    /\ reducer' = IF reducer.active THEN Feedback(reducer, success) ELSE reducer
    /\ feedback' = success
    /\ served' = sv
    /\ pc' = IF pc = "yield" THEN "fed" ELSE "finalfed"
    /\ accepted' = IF success /\ pc = "yield"
                   THEN [accepted EXCEPT ![file] = reduction]
                   ELSE accepted
    /\ UNCHANGED <<variant, all_files, has_dd, root, files_to_reduce, remain,
                   check_remain, tried, dirty, reduce_queue, file,
                   testcase_length, reduction, this_tc_tried>>
    /\ UNCHANGED <<orig, unsurfaced, nyields, nloaded, ncandidates, len_at_yield>>
    /\ UNCHANGED est_vars

\* ------------------------------------------- __iter__, after the yield
\* lines 203-207: the estimate of the iterations an accepted removal saved
AcceptDecrement(length_before, length_after) ==
    LET removed == Max(1, length_before - length_after)
        chunk_size == IF removed > 1
                      THEN largest_power_of_two_smaller_than(removed) * 2
                      ELSE removed
    IN _chunk_iters(removed, chunk_size)

\* lines 200-211: the estimate of the file under reduction after a verdict
EstimateAfterVerdict(rm, f, success, length_before, length_after) ==
    IF success
    THEN [rm EXCEPT ![f] = @ - AcceptDecrement(length_before, length_after)]
    ELSE [rm EXCEPT ![f] = @ - 1]

\* line 210: a rejected candidate's snapshot joins the cache
TriedNeverRecorded(cache, rt, success) == cache

TriedAfterVerdict(cache, rt, success) ==
    IF success THEN cache ELSE cache \cup {CalculateTestcaseHash(rt)}

\* line 224
RequeueAll(queue, files) == Sorted(files)

IntersectQueue(queue, files) == Sorted(SeqToSet(queue) \cap files)

\* lines 225-226
DirtyAfterRescan(files_after, num_files_before) ==
    Cardinality(files_after) /= num_files_before

\* lines 200-229 (and 233-234 after the break): the verdict is processed
Resume ==
    /\ pc = "fed"
    /\ LET purging == feedback /\ served.given
           est1 == EstimateAfterVerdict(remain, file, feedback, testcase_length,
                                        TestcaseLen(reduction))
           root1 == IF purging THEN PurgeUnserved(root, served.files) ELSE root
           files1 == IF purging THEN ScanFiles(root1) ELSE files_to_reduce
           est2 == IF purging THEN RescanEstimates(est1, files1) ELSE est1
           broke == purging /\ file \notin files1
       IN /\ tried' = TriedAfterVerdict(tried, root, feedback)
          /\ testcase_length' = IF feedback THEN TestcaseLen(reduction)
                                ELSE testcase_length
          /\ root' = root1
          /\ files_to_reduce' = files1
          /\ reduce_queue' = IF purging
                             THEN IntersectQueue(reduce_queue, files1)
                             ELSE reduce_queue
          /\ dirty' = IF purging
                      THEN DirtyAfterRescan(files1, Cardinality(files_to_reduce))
                      ELSE IF feedback THEN FALSE ELSE dirty
          /\ reducer' = IF broke THEN NoReducer ELSE reducer
          /\ remain' = IF broke THEN PopEstimate(est2, file) ELSE est2
          /\ pc' = IF broke THEN "loop" ELSE "iter"
          /\ unsurfaced' = (unsurfaced \/ DOMAIN root1 /= DOMAIN root)
    /\ UNCHANGED <<variant, all_files, has_dd, check_remain, feedback, served,
                   file, reduction, this_tc_tried>>
    /\ UNCHANGED <<orig, accepted, nyields, nloaded, ncandidates, len_at_yield>>
    /\ UNCHANGED est_vars

\* lines 235-241: the queue has drained with the root dirty
FinalYield ==
    /\ pc = "loop"
    /\ reduce_queue = <<>>
    /\ dirty
    /\ pc' = "final"
    /\ nyields' = CountUp(nyields)
    /\ unsurfaced' = FALSE
    /\ len_at_yield' = StrategyLen
    /\ UNCHANGED engine_vars_but_pc
    /\ UNCHANGED <<orig, accepted, nloaded, ncandidates>>
    /\ UNCHANGED est_vars

\* line 242: assert self._current_feedback
FinalVerdictIgnored(success) == TRUE

FinalVerdictOk(success) == success

\* lines 242-243: the verdict of the final yield
ResumeFinal ==
    /\ pc = "finalfed"
    /\ IF FinalVerdictOk(feedback)
       THEN /\ dirty' = FALSE
            /\ pc' = "done"
       ELSE /\ dirty' = dirty
            /\ pc' = "failed"
    /\ UNCHANGED <<variant, all_files, has_dd, root, files_to_reduce, remain,
                   check_remain, tried, reducer, feedback, served,
                   reduce_queue, file, testcase_length, reduction,
                   this_tc_tried>>
    /\ UNCHANGED <<history_vars, est_vars>>

\* lines 235, 243: the queue has drained with the root clean
Finish ==
    /\ pc = "loop"
    /\ reduce_queue = <<>>
    /\ ~dirty
    /\ dirty' = FALSE
    /\ pc' = "done"
    /\ UNCHANGED <<variant, all_files, has_dd, root, files_to_reduce, remain,
                   check_remain, tried, reducer, feedback, served,
                   reduce_queue, file, testcase_length, reduction,
                   this_tc_tried>>
    /\ UNCHANGED <<history_vars, est_vars>>

Next ==
    \/ IterStart
    \/ StartFile
    \/ NextCandidate
    \/ ReducerExhausted
    \/ \E success \in BOOLEAN : \E sv \in ServedChoices(success) :
           Update(success, sv)
    \/ Resume
    \/ FinalYield
    \/ ResumeFinal
    \/ Finish

Spec == Init /\ [][Next]_vars

\* a session of any variant over a root of NumFiles reducible files, the
\* first of MaxLen parts and the others of one part
InitFullRoot ==
    /\ variant \in Variants
    /\ all_files = TRUE
    /\ has_dd = {}
    /\ root = [p \in {MetaPath} \cup FilePaths |->
                 IF p = MetaPath THEN {}
                 ELSE IF p = 1 THEN 1..MaxLen ELSE 1..1]
    /\ files_to_reduce \in TrimmedFileLists(variant, ScanFiles(root))
    /\ remain = InitialEstimates(variant, root)
    /\ check_remain = (IF variant = "check" THEN 1 ELSE 0)
    /\ tried = {}
    /\ reducer = NoReducer
    /\ feedback = FALSE
    /\ served = NoServed
    /\ dirty = FALSE
    /\ reduce_queue = <<>>
    /\ file = NoFile
    /\ testcase_length = 0
    /\ reduction = {}
    /\ this_tc_tried = {}
    /\ pc = "new"
    /\ orig = root
    /\ accepted = root
    /\ unsurfaced = FALSE
    /\ nyields = 0
    /\ nloaded = 0
    /\ ncandidates = 0
    /\ len_at_yield = 0
    /\ EstIdle

\* the generator runs on to its next yield, and the caller answers each
\* yield and asks for the next candidate
SpecFair == InitFullRoot /\ [][Next]_vars /\ WF_vars(Next)

\* ------------------------------------------- the estimator on its own
EstInit ==
    /\ variant = "lines"
    /\ all_files = TRUE
    /\ has_dd = {}
    /\ root = [p \in {MetaPath} |-> {}]
    /\ files_to_reduce = {}
    /\ remain = InitialEstimates(variant, root)
    /\ check_remain = 0
    /\ tried = {}
    /\ reducer = NoReducer
    /\ feedback = FALSE
    /\ served = NoServed
    /\ dirty = FALSE
    /\ reduce_queue = <<>>
    /\ file = NoFile
    /\ testcase_length = 0
    /\ reduction = {}
    /\ this_tc_tried = {}
    /\ pc = "new"
    /\ orig = root
    /\ accepted = root
    /\ unsurfaced = FALSE
    /\ nyields = 0
    /\ nloaded = 0
    /\ ncandidates = 0
    /\ len_at_yield = 0
    /\ est_len \in 1..MaxEstLen
    /\ est_cls \in Variants
    /\ est_out = NoEstimate

\* cls._possible_iters(len(test)) for a length and the next one; and, for
\* the largest power of two below the length as both length and chunk size,
\* _chunk_iters and the result its general branch (lines 88-92) computes
Estimate ==
    /\ ~est_out.set
    /\ LET c == largest_power_of_two_smaller_than(est_len)
       IN est_out' = [set |-> TRUE,
                      at |-> _possible_iters(est_cls, est_len),
                      next |-> _possible_iters(est_cls, est_len + 1),
                      chunk |-> c,
                      special |-> _chunk_iters(c, c),
                      general |-> ChunkLoop(2 * c, c, c)]
    /\ UNCHANGED <<est_len, est_cls>>
    /\ UNCHANGED <<engine_vars, history_vars>>

EstNext == Estimate

EstSpec == EstInit /\ [][EstNext]_vars

\* ------------------- a session that inherits an earlier strategy's cache
\* Strategy.update_tried before iteration: a snapshot an earlier strategy
\* recorded over the same root, when it rejected a candidate of one file
InheritedSnapshots(rt) ==
    UNION {{[CalculateTestcaseHash(rt) EXCEPT ![f] = Fingerprint(c)] :
               c \in (SUBSET rt[f]) \ {rt[f]}} : f \in ScanFiles(rt)}

InitInherited ==
    /\ variant = "lines"
    /\ all_files = TRUE
    /\ has_dd = {}
    /\ root = [p \in {MetaPath} \cup FilePaths |->
                 IF p = MetaPath THEN {}
                 ELSE IF p = 1 THEN 1..MaxLen ELSE 1..1]
    /\ files_to_reduce = ScanFiles(root)
    /\ remain = InitialEstimates(variant, root)
    /\ check_remain = 0
    /\ \E s \in InheritedSnapshots(root) : tried = {s}
    /\ reducer = NoReducer
    /\ feedback = FALSE
    /\ served = NoServed
    /\ dirty = FALSE
    /\ reduce_queue = <<>>
    /\ file = NoFile
    /\ testcase_length = 0
    /\ reduction = {}
    /\ this_tc_tried = {}
    /\ pc = "new"
    /\ orig = root
    /\ accepted = root
    /\ unsurfaced = FALSE
    /\ nyields = 0
    /\ nloaded = 0
    /\ ncandidates = 0
    /\ len_at_yield = 0
    /\ EstIdle

SpecInherited == InitInherited /\ [][Next]_vars

\* ------------------------- a caller that does not keep the call order
\* lines 136-139 while no yielded candidate awaits a verdict: before the
\* first next() and after exhaustion, when self._current_reducer is None
UpdateUnasked(success, sv) ==
    /\ pc \in {"new", "done"}
    /\ reducer' = IF reducer.active THEN Feedback(reducer, success) ELSE reducer
    /\ feedback' = success
    /\ served' = sv
    /\ UNCHANGED <<variant, all_files, has_dd, root, files_to_reduce, remain,
                   check_remain, tried, dirty, reduce_queue, file,
                   testcase_length, reduction, this_tc_tried, pc>>
    /\ UNCHANGED <<history_vars, est_vars>>

\* lines 199-200: next() without an update since the yield; the generator
\* resumes and reads self._current_feedback as it was left
NextUnanswered ==
    /\ pc = "yield"
    /\ pc' = "fed"
    /\ UNCHANGED engine_vars_but_pc
    /\ UNCHANGED <<history_vars, est_vars>>

NextUnordered ==
    \/ Next
    \/ \E success \in BOOLEAN : \E sv \in ServedChoices(success) :
           UpdateUnasked(success, sv)
    \/ NextUnanswered

SpecUnordered == Init /\ [][NextUnordered]_vars

\* ---------------------------------------------------------- the claims
Ended == pc = "done"

\* C1: when iteration is exhausted normally, every reducible file still in
\* the root holds the last candidate of it that the caller accepted, or its
\* content at construction if none was accepted.
C1_BestOnDiskAtEnd ==
    Ended => \A f \in ScanFiles(root) : root[f] = accepted[f]

\* a session that ended after a file had one candidate accepted and a later
\* one rejected
C1_Witness ==
    /\ Ended
    /\ \E f \in ScanFiles(root) :
         /\ accepted[f] /= orig[f]
         /\ \E s \in tried : f \in DOMAIN s /\ s[f] /= Fingerprint(accepted[f])
                             /\ s[f] /= Fingerprint(orig[f])

\* C2: iteration never ends normally while a purge that deleted a file has
\* not been part of a yielded set (a purge is always followed by a yield).
C2_PurgeSurfacedBeforeEnd == Ended => ~unsurfaced

\* C3: with the dirty flag set when the queue drains there is exactly one
\* more yield; a successful verdict for it ends iteration with the flag
\* cleared, a failed one is fatal and changes neither the cache nor the
\* estimates.
C3_FinalYieldVerdict ==
    [][/\ (pc = "loop" /\ reduce_queue = <<>> /\ dirty) => pc' = "final"
       /\ pc = "final" => pc' = "finalfed"
       /\ pc = "finalfed" =>
            /\ nyields' = nyields
            /\ IF feedback
               THEN pc' = "done" /\ ~dirty'
               ELSE pc' = "failed" /\ tried' = tried /\ remain' = remain]_vars

\* the final yield was rejected
C3_Witness == pc = "failed" /\ dirty /\ ~feedback

\* whether snapshot t agrees with the root on every file other than f
AgreesExcept(t, rt, f) ==
    \A g \in (DOMAIN t \cup ScanFiles(rt)) \ {f} :
        /\ g \in DOMAIN t
        /\ g \in ScanFiles(rt)
        /\ t[g] = Fingerprint(rt[g])

\* C4: when reduction of a file starts, the skip-set seeded into its reducer
\* is exactly the file's fingerprints in the cached snapshots that agree
\* with the root on every other file.
C4_SeededSkipSet ==
    [][(pc = "loop" /\ pc' = "iter") =>
         /\ this_tc_tried' =
              {t[file'] : t \in {u \in tried : AgreesExcept(u, root, file')}}
         /\ reducer'.tried = this_tc_tried']_vars

\* a file starts with a snapshot that seeds it and one that does not
C4_Witness ==
    /\ pc = "iter"
    /\ reducer.count = 0
    /\ this_tc_tried /= {}
    /\ \E t \in tried : ~AgreesExcept(t, root, file)

\* C5 as stated: at normal exhaustion len() is 0, the queue is empty, the
\* dirty flag is false, no reducer is active and no estimate is left.
C5_AllClearAtEnd ==
    Ended => /\ StrategyLen = 0
             /\ reduce_queue = <<>>
             /\ ~dirty
             /\ ~reducer.active
             /\ DOMAIN remain = {}

\* C5 amended: as C5, but no estimate is left for the variants other than
\* Check; Check leaves none for the file it loaded.
C5_AllClearAtEndButCheckEstimates ==
    Ended => /\ StrategyLen = 0
             /\ reduce_queue = <<>>
             /\ ~dirty
             /\ ~reducer.active
             /\ variant /= "check" => DOMAIN remain = {}
             /\ variant = "check" => file \notin DOMAIN remain

\* a minimizer's session over two files ended
C5_Witness ==
    /\ Ended
    /\ variant /= "check"
    /\ nloaded = 2
    /\ nyields = 2

\* C6: len() at each yield is strictly smaller than at the yield before.
C6_LenDecreasesAtEachYield ==
    [][(pc \notin {"yield", "final"} /\ pc' \in {"yield", "final"}
        /\ nyields >= 1) =>
         LenOf(variant', remain', dirty', check_remain') < len_at_yield]_vars

\* C7: no estimate and no len() is ever negative.
C7_EstimatesNonNegative ==
    /\ \A f \in DOMAIN remain : remain[f] >= 0
    /\ StrategyLen >= 0

\* C8: for every length L >= 1 and every variant, _possible_iters(L) is a
\* non-negative integer and is at most _possible_iters(L + 1).
C8_EstimateMonotone ==
    est_out.set => /\ est_out.at \in Int
                   /\ est_out.at >= 0
                   /\ est_out.at <= est_out.next

\* the doubled estimate of a length that is no power of two
C8_Witness ==
    /\ est_out.set
    /\ est_cls = "collapsebraces"
    /\ est_len = 9
    /\ est_out.at < est_out.next

\* C9: Check yields exactly once in a session with a reducible file, and
\* loads at most one file.
C9_CheckYieldsOnce ==
    variant = "check" =>
        /\ nyields <= 1
        /\ nloaded <= 1
        /\ (pc \in {"done", "failed"} /\ ScanFiles(orig) /= {}) => nyields = 1

\* C10: with no reducible file nothing is yielded, nothing fails, and len()
\* is 0 before iteration starts and after it ends.
C10_NothingToReduce ==
    ScanFiles(orig) = {} =>
        /\ nyields = 0
        /\ pc /= "failed"
        /\ pc \in {"new", "done"} => StrategyLen = 0

\* C11: after an accepted verdict whose served list leaves out a reducible
\* file g other than the file under reduction, g is gone from the root, from
\* the scanned files and from the estimates, the dirty flag is set and the
\* queue is sorted and within the surviving scanned files; g is never loaded
\* afterwards (no file comes back, and only files in the root are loaded).
C11_PurgeOfAnotherFile ==
    [][/\ (pc = "fed" /\ feedback /\ served.given) =>
            \A g \in ScanFiles(root) \ (served.files \cup {file}) :
                /\ g \notin DOMAIN root'
                /\ g \notin files_to_reduce'
                /\ g \notin DOMAIN remain'
                /\ dirty'
                /\ reduce_queue' = Sorted(SeqToSet(reduce_queue'))
                /\ SeqToSet(reduce_queue') \subseteq files_to_reduce'
       /\ DOMAIN root' \subseteq DOMAIN root
       /\ (pc = "loop" /\ pc' = "iter") => file' \in DOMAIN root]_vars

\* a metadata file, or with all_files false a file without DDBEGIN/DDEND
Unmarked(p) == p = MetaPath \/ (~all_files /\ p \notin has_dd)

\* C12: a metadata file, and with all_files false a file without the marker
\* pair, is never among the scanned files, in the queue or in the estimates,
\* is never loaded, and no step other than the purge that follows an
\* accepted verdict with a served list removes it or changes its content.
C12_UnmarkedFilesUntouched ==
    [][\A p \in DOMAIN root : Unmarked(p) =>
          /\ p \notin files_to_reduce \cup files_to_reduce'
          /\ p \notin SeqToSet(reduce_queue) \cup SeqToSet(reduce_queue')
          /\ p \notin DOMAIN remain \cup DOMAIN remain'
          /\ p \notin {file, file'}
          /\ ~(pc = "fed" /\ feedback /\ served.given) =>
                 (p \in DOMAIN root' /\ root'[p] = root[p])]_vars

\* a session without served lists ended with a marked file reduced next to
\* a file without markers
C12_Witness ==
    /\ Ended
    /\ ~all_files
    /\ ~served.given
    /\ DOMAIN root = DOMAIN orig
    /\ \E p \in DOMAIN root : p /= MetaPath /\ Unmarked(p)
    /\ \E f \in DOMAIN root : accepted[f] /= orig[f]

\* C13: an update while no candidate awaits a verdict changes nothing, a
\* next() without an update since the yield does not resume the generator,
\* and no verdict is processed for a candidate that was not answered (the
\* reducer still holds its attempt).
C13_CallOrderEnforced ==
    [][/\ pc \in {"new", "done"} =>
            (feedback' = feedback /\ served' = served /\ reducer' = reducer)
       /\ (pc = "yield" /\ reducer' = reducer) => pc' = "yield"
       /\ (pc = "fed" /\ reducer.attempt /= {}) =>
            /\ tried' = tried
            /\ remain' = remain
            /\ dirty' = dirty
            /\ root' = root]_vars

\* C14: when every yield is answered the session ends, normally or by the
\* final-yield assertion; after the queue is built it never grows, and each
\* outer iteration takes one file off it.
C14_SessionTerminates ==
    /\ <>(pc \in {"done", "failed"})
    /\ [][/\ pc /= "new" => Len(reduce_queue') <= Len(reduce_queue)
          /\ (pc = "loop" /\ pc' = "iter") =>
                /\ Len(reduce_queue') = Len(reduce_queue) - 1
                /\ file' \notin SeqToSet(reduce_queue')]_vars

\* a session ended after two files were loaded and a purge shrank the root
C14_Witness ==
    /\ pc = "done"
    /\ nloaded = 2
    /\ DOMAIN root /= DOMAIN orig

\* C15: processing a rejection adds exactly one snapshot, the fingerprints
\* of the root as it was yielded, to the cache and takes 1 off the estimate
\* of the file under reduction; the other estimates, the queue, the scanned
\* files, the dirty flag and the root stay as they are, with or without a
\* served list.
C15_RejectionFrame ==
    [][(pc = "fed" /\ ~feedback) =>
          /\ tried' = tried \cup {CalculateTestcaseHash(root)}
          /\ Cardinality(tried') = Cardinality(tried) + 1
          /\ file \in DOMAIN remain
          /\ remain' = [remain EXCEPT ![file] = @ - 1]
          /\ reduce_queue' = reduce_queue
          /\ files_to_reduce' = files_to_reduce
          /\ dirty' = dirty
          /\ root' = root]_vars

\* a rejection that came with a served list has been processed
C15_Witness ==
    /\ pc = "iter"
    /\ ~feedback
    /\ served.given
    /\ reducer.count >= 1
    /\ CalculateTestcaseHash([root EXCEPT ![file] = reduction]) \in tried

\* C16: while a file is under reduction, every fingerprint seeded into its
\* reducer comes from a cached snapshot that agrees with the root, as it is
\* now, on every other file.
C16_SeededSetStaysValid ==
    reducer.active =>
        \A fp \in this_tc_tried :
            \E t \in tried : /\ file \in DOMAIN t
                             /\ t[file] = fp
                             /\ AgreesExcept(t, root, file)

C18_PurgeOfActiveFile ==
    [][/\ (pc = "fed" /\ feedback /\ served.given
           /\ file \in ScanFiles(root) \ served.files) =>
            /\ pc' = "loop"
            /\ ~reducer'.active
            /\ file \notin DOMAIN root'
            /\ file \notin DOMAIN remain'
            /\ dirty'
       /\ \A p \in DOMAIN root' : p \in DOMAIN root
       /\ (pc = "loop" /\ reduce_queue /= <<>>) => pc' = "iter"
       /\ (pc = "loop" /\ reduce_queue = <<>> /\ dirty) => pc' = "final"]_vars

\* C19 as stated: every key of the estimates is in the scanned file list,
\* for every variant, Check with its trimmed list included.
C19_EstimateKeysInFileList == DOMAIN remain \subseteq files_to_reduce

\* C19 amended: every key of the estimates is a file that a scan of the
\* root returns, and for the variants other than Check a member of the
\* scanned file list; for Check the same holds whenever its list is a
\* scan's result instead of the trimmed one.
C19_EstimateKeysScanned ==
    /\ DOMAIN remain \subseteq ScanFiles(root)
    /\ (variant /= "check" \/ files_to_reduce = ScanFiles(root)) =>
           DOMAIN remain \subseteq files_to_reduce

\* a purge shrank the root while a file that keeps its estimate is under
\* reduction
C19_Witness ==
    /\ pc = "iter"
    /\ DOMAIN root /= DOMAIN orig
    /\ file \in DOMAIN remain

====
